---------------------------- MODULE Spec2Model ----------------------------
(***************************************************************************)
(* A model of materials_commons/prisms-pf: the parameter-file parser       *)
(* (etl.py: ParameterFileParser.parse / to_params, add_to_excel) and the   *)
(* file organizer (importsim.py: ImportSimulator.organize_files).          *)
(*                                                                         *)
(* Python dict objects have identity: `current_section` and the entries of *)
(* `section_stack` are references.  The model keeps a heap `objects` of    *)
(* dicts; a dict is a set of entries [key, ref, str] with distinct keys,   *)
(* where ref >= 1 is a reference to another dict of the heap, ref = 0      *)
(* marks a string value (held in str) and ref = -1 marks None.             *)
(***************************************************************************)
EXTENDS Integers, Sequences, FiniteSets, TLC

VARIABLES
    objects,          \* heap of dict objects; objects[parameters] is self.parameters
    section_stack,    \* self.section_stack: sequence of references
    current_section,  \* local of parse: reference to the section being filled
    pc,               \* "idle" | "parsing" | "returned" | "raised" (KeyError left parse)
    lines,            \* classified lines read so far by the running/last parse call
    sections,         \* sections[i] = current_section just before lines[i] was processed
    warnings,         \* number of "Warning: Unable to parse line" messages printed
    calls,            \* number of parse calls started on this instance
    firstFile,        \* lines of the first completed parse call
    firstTree,        \* tree of self.parameters when the first parse call returned
    source_directory, \* to_params: the sidecar files of the directory it was given
    record,           \* to_params: the dict it returned ({} before any call)
    workbook,         \* add_to_excel: the file at excel_file_path
    excel_status,     \* add_to_excel: how the last call ended
    added,            \* add_to_excel: the (params, calculation) of the calls so far
    dirs,             \* filesystem: the directories (absolute paths, as component sequences)
    files,            \* filesystem: the regular files [dir, name]
    files0,           \* the regular files when organize_files was called
    org_result        \* organize_files: how the call ended and the dict it returned

parserVars == <<objects, section_stack, current_section, pc, lines, sections,
                warnings, calls, firstFile, firstTree>>

recordVars == <<source_directory, record>>

excelVars == <<workbook, excel_status, added>>

organizerVars == <<dirs, files, files0, org_result>>

vars == <<parserVars, recordVars, excelVars, organizerVars>>

(***************************************************************************)
(* Bounds of the model.                                                    *)
(***************************************************************************)
MaxLines == 5

\* parse calls on one instance, and lines per call, in SpecReuse
MaxCalls == 2

MaxReuseLines == 2

\* lines of the file parsed twice in SpecReparse
MaxReparseLines == 9

\* lines parsed before to_params in SpecRecord
MaxRecordLines == 2

\* add_to_excel calls in SpecExcel
MaxExcelCalls == 4

(***************************************************************************)
(* Dicts.                                                                  *)
(***************************************************************************)
parameters == 1

StrRef == 0

NoneRef == 0 - 1

Entry(k, r, s) == [key |-> k, ref |-> r, str |-> s]

HasKey(d, k) == \E e \in d : e.key = k

Get(d, k) == CHOOSE e \in d : e.key = k

Put(d, k, r, s) == {e \in d : e.key # k} \cup {Entry(k, r, s)}

\* objs with a new dict object d appended; its reference is Len(objs) + 1
Alloc(objs, d) == Append(objs, d)

\* objs with objs[id][k] bound to (r, s)
Store(objs, id, k, r, s) == [objs EXCEPT ![id] = Put(objs[id], k, r, s)]

(***************************************************************************)
(* Lines.  A raw line is the sequence of its whitespace-separated tokens   *)
(* after strip(); Classify mirrors the order of the tests in parse.        *)
(***************************************************************************)
RawLines ==
    { <<>>,
      <<"#", "comment">>,
      <<"subsection", "A">>,
      <<"subsection", "B">>,
      <<"end">>,
      <<"set", "x", "=", "1">>,
      <<"set", "y", "=", "2", ",", "double">>,
      <<"foobar", "baz">>,
      <<"subsection">>,
      <<"end", "x">>,
      <<"set", "x">> }

Line(k, n, v, t) == [kind |-> k, name |-> n, value |-> v, type |-> t]

Classify(raw) ==
    IF Len(raw) = 0 THEN Line("skip", "", "", "")
    ELSE IF raw[1] = "#" THEN Line("skip", "", "", "")
    ELSE IF raw[1] = "subsection" /\ Len(raw) >= 2 THEN Line("subsection", raw[2], "", "")
    ELSE IF raw = <<"end">> THEN Line("end", "", "", "")
    ELSE IF raw[1] = "set" /\ Len(raw) >= 4 /\ raw[3] = "="
         THEN IF Len(raw) = 6 /\ raw[5] = ","
              THEN Line("set", raw[2], raw[4], raw[6])
              ELSE Line("set", raw[2], raw[4], "")
    ELSE Line("other", "", "", "")

(***************************************************************************)
(* One iteration of the loop of parse, as a function of the parser state   *)
(* st = [objects, section_stack, current_section, pc, warnings].           *)
(***************************************************************************)
ParserState == [objects |-> objects, section_stack |-> section_stack,
                current_section |-> current_section, pc |-> pc,
                warnings |-> warnings]

\* lines 39-45: membership is tested in self.parameters, the new dict is
\* stored in current_section, the stack is pushed, then current_section[name]
\* is read (KeyError when the name is a key of the root but not of the
\* current section).
SubsectionLine(st, name) ==
    LET inRoot == HasKey(st.objects[parameters], name)
        objs1  == IF inRoot THEN st.objects
                  ELSE Store(Alloc(st.objects, {}), st.current_section, name,
                             Len(st.objects) + 1, "")
        stack1 == Append(st.section_stack, st.current_section)
    IN  IF HasKey(objs1[st.current_section], name)
        THEN [st EXCEPT !.objects = objs1, !.section_stack = stack1,
                        !.current_section = Get(objs1[st.current_section], name).ref]
        ELSE [st EXCEPT !.objects = objs1, !.section_stack = stack1,
                        !.pc = "raised"]

\* EndLine with the assignment to current_section lost
EndLineKeepsCurrent(st) ==
    IF st.section_stack # <<>>
    THEN [st EXCEPT !.section_stack = SubSeq(st.section_stack, 1, Len(st.section_stack) - 1)]
    ELSE st

\* lines 48-51
EndLine(st) ==
    IF st.section_stack # <<>>
    THEN [st EXCEPT !.current_section = st.section_stack[Len(st.section_stack)],
                    !.section_stack = SubSeq(st.section_stack, 1, Len(st.section_stack) - 1)]
    ELSE st

\* lines 54-62: a new dict {"value": value, "type": value_type} is stored under key
SetLine(st, key, value, type) ==
    LET leaf == {Entry("value", StrRef, value),
                 IF type = "" THEN Entry("type", NoneRef, "")
                              ELSE Entry("type", StrRef, type)}
    IN  [st EXCEPT !.objects = Store(Alloc(st.objects, leaf), st.current_section,
                                     key, Len(st.objects) + 1, "")]

\* OtherLine raising instead of printing the warning
OtherLineRaises(st) == [st EXCEPT !.pc = "raised"]

\* lines 63-64
OtherLine(st) == [st EXCEPT !.warnings = st.warnings + 1]

\* lines 27-33
SkipLine(st) == st

Step(st, ln) ==
    CASE ln.kind = "skip"       -> SkipLine(st)
      [] ln.kind = "subsection" -> SubsectionLine(st, ln.name)
      [] ln.kind = "end"        -> EndLine(st)
      [] ln.kind = "set"        -> SetLine(st, ln.name, ln.value, ln.type)
      [] OTHER                  -> OtherLine(st)

(***************************************************************************)
(* The tree below a dict object, as the set of its paths: a string or None *)
(* entry gives [path, ref, str], a dict entry gives [path, ref |-> 1, ""]  *)
(* and the paths below it.                                                 *)
(***************************************************************************)
RECURSIVE Flat(_, _, _)
Flat(objs, id, path) ==
    UNION { IF e.ref >= 1
            THEN {[path |-> Append(path, e.key), ref |-> 1, str |-> ""]}
                 \cup Flat(objs, e.ref, Append(path, e.key))
            ELSE {[path |-> Append(path, e.key), ref |-> e.ref, str |-> e.str]}
          : e \in objs[id] }

Tree(objs) == Flat(objs, parameters, <<>>)

(***************************************************************************)
(* Files of the environment.                                               *)
(***************************************************************************)
NoFile == [exists |-> FALSE, text |-> ""]

File(t) == [exists |-> TRUE, text |-> t]

\* lines 11-12
Exists(f) == f.exists

\* lines 7-8
GetFileContents(f) == f.text

SidecarStates == {NoFile, File("desc text"), File("")}

Calculations == {"Sheet1", "calc"}

PathRef == 0 - 2

\* A workbook is a sequence of sheets [name, rows]; rows[1] is the header row.
NoWorkbook == [exists |-> FALSE, sheets |-> <<>>]

\* the records add_to_excel is given: column names and the values under them
Records ==
    { [cols |-> <<"calculation", "x">>, vals |-> <<"r1", "1">>],
      [cols |-> <<"calculation", "x">>, vals |-> <<"r2", "2">>],
      [cols |-> <<"calculation">>, vals |-> <<"r3">>] }

Range(s) == {s[i] : i \in 1..Len(s)}

(***************************************************************************)
(* The filesystem of the organizer.  A path is the sequence of its         *)
(* components; a file name carries the two things a glob pattern "*<ext>"  *)
(* reads from it: its extension, and whether it starts with a dot.         *)
(***************************************************************************)
Cwd == <<"work">>

FileName(n, e, d) == [name |-> n, ext |-> e, dot |-> d]

SourceNames ==
    { FileName("run.cpp", ".cpp", FALSE),
      FileName("out.vtk", ".vtk", FALSE),
      FileName("notes.md", ".md", FALSE),
      FileName("CMakeLists.txt", ".txt", FALSE),
      FileName("integratedFields.txt", ".txt", FALSE),
      FileName(".hidden.py", ".py", TRUE) }

PathArg(abs, parts) == [given |-> TRUE, absolute |-> abs, parts |-> parts]

NoPathArg == [given |-> FALSE, absolute |-> FALSE, parts |-> <<>>]

SourceArgs == {PathArg(TRUE, <<"data", "sim">>), PathArg(FALSE, <<"sim">>),
               PathArg(TRUE, <<"data", "sim[1]">>), PathArg(TRUE, <<"data", "missing">>)}

\* path components that hold a glob wildcard ("*", "?" or "[")
MagicComponents == {"sim[1]"}

HasMagic(path) == \E i \in 1..Len(path) : path[i] \in MagicComponents

DestinationArgs == {NoPathArg, PathArg(TRUE, <<"out">>)}

NoResult == [outcome |-> "none", src_dir |-> <<>>, dst_dir |-> <<>>,
             success |-> FALSE, message |-> "", copy_output |-> TRUE,
             dst_given |-> FALSE]

Prefixes(p) == {SubSeq(p, 1, n) : n \in 1..Len(p)}

Listing(fs, dir) == {f.name : f \in {g \in fs : g.dir = dir}}

(***************************************************************************)
(* Actions.                                                                *)
(***************************************************************************)
ParserInit ==
    /\ objects = <<{}>>
    /\ section_stack = <<>>
    /\ current_section = parameters
    /\ pc = "idle"
    /\ lines = <<>>
    /\ sections = <<>>
    /\ warnings = 0
    /\ calls = 0
    /\ firstFile = <<>>
    /\ firstTree = {}
    /\ source_directory = [description |-> NoFile, observations |-> NoFile]
    /\ record = {}

ExcelInit ==
    /\ workbook = NoWorkbook
    /\ excel_status = "none"
    /\ added = <<>>

OrganizerInit ==
    /\ dirs = {Cwd}
    /\ files = {}
    /\ files0 = {}
    /\ org_result = NoResult

Init == ParserInit /\ ExcelInit /\ OrganizerInit

\* line 21: a call of parse binds current_section to self.parameters
ParseOpen(maxCalls) ==
    /\ pc # "parsing"
    /\ calls < maxCalls
    /\ pc' = "parsing"
    /\ current_section' = parameters
    /\ lines' = <<>>
    /\ sections' = <<>>
    /\ calls' = calls + 1
    /\ UNCHANGED <<objects, section_stack, warnings, firstFile, firstTree>>
    /\ UNCHANGED <<recordVars, excelVars, organizerVars>>

\* lines 23-64: the loop body on one line
ReadLine(ln) ==
    LET st == Step(ParserState, ln)
    IN  /\ pc = "parsing"
        /\ objects' = st.objects
        /\ section_stack' = st.section_stack
        /\ current_section' = st.current_section
        /\ pc' = st.pc
        /\ warnings' = st.warnings
        /\ lines' = Append(lines, ln)
        /\ sections' = Append(sections, current_section)
        /\ UNCHANGED <<calls, firstFile, firstTree>>
        /\ UNCHANGED <<recordVars, excelVars, organizerVars>>

ParseSkip(maxLines) ==
    \E raw \in RawLines :
        /\ Classify(raw).kind = "skip"
        /\ Len(lines) < maxLines
        /\ ReadLine(Classify(raw))

ParseSubsection(maxLines) ==
    \E raw \in RawLines :
        /\ Classify(raw).kind = "subsection"
        /\ Len(lines) < maxLines
        /\ ReadLine(Classify(raw))

ParseEnd(maxLines) ==
    \E raw \in RawLines :
        /\ Classify(raw).kind = "end"
        /\ Len(lines) < maxLines
        /\ ReadLine(Classify(raw))

ParseSet(maxLines) ==
    \E raw \in RawLines :
        /\ Classify(raw).kind = "set"
        /\ Len(lines) < maxLines
        /\ ReadLine(Classify(raw))

ParseUnparseable(maxLines) ==
    \E raw \in RawLines :
        /\ Classify(raw).kind = "other"
        /\ Len(lines) < maxLines
        /\ ReadLine(Classify(raw))

\* end of input: parse returns (None); the stack is left as it is
ParseReturn ==
    /\ pc = "parsing"
    /\ pc' = "returned"
    /\ firstFile' = IF calls = 1 THEN lines ELSE firstFile
    /\ firstTree' = IF calls = 1 THEN Tree(objects) ELSE firstTree
    /\ UNCHANGED <<objects, section_stack, current_section, lines, sections,
                   warnings, calls>>
    /\ UNCHANGED <<recordVars, excelVars, organizerVars>>

\* One parse call on a freshly constructed parser.
Next ==
    \/ ParseOpen(1)
    \/ ParseSkip(MaxLines)
    \/ ParseSubsection(MaxLines)
    \/ ParseEnd(MaxLines)
    \/ ParseSet(MaxLines)
    \/ ParseUnparseable(MaxLines)
    \/ ParseReturn

Spec == Init /\ [][Next]_vars

(***************************************************************************)
(* Several parse calls on one parser instance.                             *)
(***************************************************************************)
NextReuse ==
    \/ ParseOpen(MaxCalls)
    \/ ParseSkip(MaxReuseLines)
    \/ ParseSubsection(MaxReuseLines)
    \/ ParseEnd(MaxReuseLines)
    \/ ParseSet(MaxReuseLines)
    \/ ParseUnparseable(MaxReuseLines)
    \/ ParseReturn

SpecReuse == Init /\ [][NextReuse]_vars

(***************************************************************************)
(* One file with matched subsection/end lines parsed twice, one call after *)
(* the other, by one parser instance.                                      *)
(***************************************************************************)
WellFormedRawLines ==
    { <<"subsection", "A">>, <<"subsection", "B">>, <<"end">>, <<"set", "x", "=", "1">> }

ReparseOpen ==
    /\ pc \in {"idle", "returned"}
    /\ ParseOpen(2)

FirstParseLine ==
    \E raw \in WellFormedRawLines :
        /\ calls = 1
        /\ Len(lines) < MaxReparseLines
        /\ Classify(raw).kind = "end" => Len(section_stack) > 0
        /\ ReadLine(Classify(raw))

FirstParseReturn ==
    /\ calls = 1
    /\ section_stack = <<>>
    /\ ParseReturn

SecondParseLine ==
    /\ calls = 2
    /\ Len(lines) < Len(firstFile)
    /\ ReadLine(firstFile[Len(lines) + 1])

SecondParseReturn ==
    /\ calls = 2
    /\ Len(lines) = Len(firstFile)
    /\ ParseReturn

NextReparse ==
    \/ ReparseOpen
    \/ FirstParseLine
    \/ FirstParseReturn
    \/ SecondParseLine
    \/ SecondParseReturn

SpecReparse == Init /\ [][NextReparse]_vars

(***************************************************************************)
(* to_params.  etl.py does not compile as it stands: the dict literal      *)
(* returned at lines 74-77 is followed by the tail of a keyword call       *)
(* (lines 78-82).  Both readings are modelled: the dict literal alone, and *)
(* the keyword call alone.  In both, line 73 has rebound `description` to  *)
(* the path of description.txt before the record is built.                 *)
(***************************************************************************)
\* lines 67-73: the values of the locals description and observations at line 74
SidecarLocals(dir) ==
    LET read         == IF Exists(dir.description) THEN GetFileContents(dir.description) ELSE ""
        observations == IF Exists(dir.observations) THEN GetFileContents(dir.observations) ELSE ""
        description  == [ref |-> PathRef, str |-> "description.txt"]   \* line 73 drops `read`
    IN  [description  |-> Entry("description", description.ref, description.str),
         observations |-> Entry("observations", StrRef, observations)]

\* lines 74-77
RecordLiteral(calculation, dir) == {Entry("c:Calculation", StrRef, calculation)}

\* lines 78-82 (no key of RawLines is one of the three keywords)
RecordKeywords(calculation, dir) ==
    LET loc == SidecarLocals(dir)
    IN  objects[parameters]
        \cup {Entry("calculation", StrRef, calculation), loc.description, loc.observations}

ToParams(calculation, dir) ==
    /\ pc # "parsing"
    /\ source_directory' = dir
    /\ \/ record' = RecordLiteral(calculation, dir)
       \/ record' = RecordKeywords(calculation, dir)
    /\ UNCHANGED <<parserVars, excelVars, organizerVars>>

NextRecord ==
    \/ ParseOpen(1)
    \/ ParseSkip(MaxRecordLines)
    \/ ParseSubsection(MaxRecordLines)
    \/ ParseEnd(MaxRecordLines)
    \/ ParseSet(MaxRecordLines)
    \/ ParseUnparseable(MaxRecordLines)
    \/ ParseReturn
    \/ \E c \in Calculations, d, o \in SidecarStates :
           ToParams(c, [description |-> d, observations |-> o])

SpecRecord == Init /\ [][NextRecord]_vars

(***************************************************************************)
(* add_to_excel (lines 85-97).                                             *)
(***************************************************************************)
\* pandas.read_excel(path): the first sheet, its first row as the column names
ReadExcel(wb) ==
    LET rows == wb.sheets[1].rows
    IN  [cols |-> rows[1], data |-> SubSeq(rows, 2, Len(rows))]

SheetNames(wb) == {wb.sheets[i].name : i \in 1..Len(wb.sheets)}

SheetIndex(wb, name) == CHOOSE i \in 1..Len(wb.sheets) : wb.sheets[i].name = name

\* DataFrame.to_excel(writer, sheet_name, header=False, startrow=max_row): the
\* rows of the frame are written below the last row of the sheet
WriteRows(wb, name, data) ==
    [wb EXCEPT !.sheets[SheetIndex(wb, name)].rows = @ \o data]

\* the result of add_to_excel: [workbook, status]
AddToExcelResult(wb, params, calculation) ==
    IF ~wb.exists
    THEN \* lines 87-89: to_excel(path, index=False) writes sheet "Sheet1"
         [workbook |-> [exists |-> TRUE,
                        sheets |-> <<[name |-> "Sheet1",
                                      rows |-> <<params.cols, params.vals>>]>>],
          status |-> "ok"]
    ELSE LET existing_data_frame == ReadExcel(wb)
         IN  IF ~(Range(existing_data_frame.cols) \subseteq Range(params.cols))
             THEN [workbook |-> wb, status |-> "Exception"]      \* line 93
             ELSE IF calculation \notin SheetNames(wb)
             THEN [workbook |-> wb, status |-> "KeyError"]       \* line 97: writer.sheets[calculation]
             ELSE [workbook |-> WriteRows(wb, calculation, existing_data_frame.data),
                   status |-> "ok"]                               \* lines 95-97

AddToExcel(params, calculation) ==
    LET r == AddToExcelResult(workbook, params, calculation)
    IN  /\ Len(added) < MaxExcelCalls
        /\ workbook' = r.workbook
        /\ excel_status' = r.status
        /\ added' = Append(added, [params |-> params, calculation |-> calculation])
        /\ UNCHANGED <<parserVars, recordVars, organizerVars>>

NextExcel == \E params \in Records, c \in Calculations : AddToExcel(params, c)

SpecExcel == Init /\ [][NextExcel]_vars

(***************************************************************************)
(* organize_files (importsim.py).                                          *)
(***************************************************************************)
\* lines 90-91, 95, 99
CodeExtensions ==
    <<".cc", ".c", ".cpp", ".cxx", ".h", ".hpp", ".prm", ".py", ".sh", ".json", ".yaml", ".yml">>

OutputExtensions == <<".vtk", ".vtu", ".pvtu">>

MarkdownExtensions == <<".md">>

\* lines 72-85: the directories made, in order (<<>> is dst_dir itself)
DirectoryStructure ==
    << <<>>, <<"code">>, <<"data">>, <<"data", "vtk">>, <<"data", "images">>,
       <<"data", "movies">>, <<"data", "postprocess">> >>

\* "*" + ext matches the names ending in ext that do not start with a dot
GlobMatch(ext, f) == f.ext = ext /\ ~f.dot

\* glob.glob(os.path.join(src_dir, "*" + ext)): the whole path is the pattern,
\* so a wildcard in src_dir is matched against directory names too ("sim[1]"
\* selects a directory sim1, which no filesystem of the model holds)
Glob(fs, src, ext) ==
    IF HasMagic(src) THEN {} ELSE {f \in Listing(fs, src) : GlobMatch(ext, f)}

RECURSIVE SeqOfSet(_)
SeqOfSet(S) ==
    IF S = {} THEN <<>>
    ELSE LET x == CHOOSE y \in S : TRUE IN <<x>> \o SeqOfSet(S \ {x})

\* lines 104-124: the copy2/move calls of one _copy_files_by_pattern call
RECURSIVE CopyFilesByPattern(_, _, _, _, _)
CopyFilesByPattern(fs, src, patterns, destination, copy) ==
    IF patterns = <<>> THEN <<>>
    ELSE LET matching_files == SeqOfSet(Glob(fs, src, patterns[1]))
         IN  [i \in 1..Len(matching_files) |->
                 [file |-> matching_files[i], to |-> destination, copy |-> copy]]
             \o CopyFilesByPattern(fs, src, SubSeq(patterns, 2, Len(patterns)),
                                   destination, copy)

\* lines 126-136: os.path.isfile on the two names (no glob)
HandleSpecialFiles(fs, src, dst) ==
    LET cmake == {f \in Listing(fs, src) : f.name = "CMakeLists.txt"}
        integrated == {f \in Listing(fs, src) : f.name = "integratedFields.txt"}
    IN  [i \in 1..Cardinality(cmake) |->
            [file |-> SeqOfSet(cmake)[i], to |-> dst \o <<"code">>, copy |-> TRUE]]
        \o [i \in 1..Cardinality(integrated) |->
            [file |-> SeqOfSet(integrated)[i], to |-> dst \o <<"data", "postprocess">>,
             copy |-> TRUE]]

\* OrganizeOps with the copy-vs-move flag applied to the code files too
OrganizeOpsFlagOnCode(fs, src, dst, copy_output) ==
    CopyFilesByPattern(fs, src, CodeExtensions, dst \o <<"code">>, copy_output)
    \o CopyFilesByPattern(fs, src, OutputExtensions, dst \o <<"data", "vtk">>, copy_output)
    \o CopyFilesByPattern(fs, src, MarkdownExtensions, dst, TRUE)
    \o HandleSpecialFiles(fs, src, dst)

\* lines 87-102: the copy2/move calls of _organize_files, in order
OrganizeOps(fs, src, dst, copy_output) ==
    CopyFilesByPattern(fs, src, CodeExtensions, dst \o <<"code">>, TRUE)
    \o CopyFilesByPattern(fs, src, OutputExtensions, dst \o <<"data", "vtk">>, copy_output)
    \o CopyFilesByPattern(fs, src, MarkdownExtensions, dst, TRUE)
    \o HandleSpecialFiles(fs, src, dst)

\* shutil.copy2 raises SameFileError when the file is copied onto itself;
\* shutil.move raises Error when the destination directory holds the name
OpRaises(fs, src, op) ==
    \/ op.copy /\ op.to = src
    \/ ~op.copy /\ [dir |-> op.to, name |-> op.file] \in fs

\* lines 138-156 (elapsed_time left out)
CreateResult(src, dst, success, message, copy_output, dst_given) ==
    [outcome |-> "returned", src_dir |-> src, dst_dir |-> dst, success |-> success,
     message |-> message, copy_output |-> copy_output, dst_given |-> dst_given]

\* lines 39-67.  okDirs / okOps: how many makedirs / copy-move calls the
\* environment lets succeed before one fails (permissions, disk full, ...).
OrganizeFiles(src_arg, dst_arg, copy_output, okDirs, okOps) ==
    /\ org_result.outcome = "none"
    /\ files0' = files
    /\ UNCHANGED <<parserVars, recordVars, excelVars>>
    /\ IF (~src_arg.absolute \/ ~dst_arg.given) /\ Cwd \notin dirs
       THEN \* lines 40, 46: os.path.abspath calls os.getcwd(), outside any try
            /\ org_result' = [NoResult EXCEPT !.outcome = "raised",
                                               !.message = "FileNotFoundError",
                                               !.copy_output = copy_output,
                                               !.dst_given = dst_arg.given]
            /\ UNCHANGED <<dirs, files>>
       ELSE LET src == IF src_arg.absolute THEN src_arg.parts ELSE Cwd \o src_arg.parts
                dst == IF dst_arg.given THEN dst_arg.parts
                       ELSE Cwd \o <<src[Len(src)]>>
                made == {dst \o DirectoryStructure[i] :
                             i \in 1..(IF okDirs < Len(DirectoryStructure)
                                       THEN okDirs ELSE Len(DirectoryStructure))}
            IN  IF src \notin dirs
                THEN /\ org_result' = CreateResult(src, dst, FALSE,
                                          "Source directory does not exist.",
                                          copy_output, dst_arg.given)
                     /\ UNCHANGED <<dirs, files>>
                ELSE IF okDirs < Len(DirectoryStructure)
                THEN /\ org_result' = CreateResult(src, dst, FALSE,
                                          "Failed to create directory structure",
                                          copy_output, dst_arg.given)
                     /\ dirs' = dirs \cup UNION {Prefixes(d) : d \in made}
                     /\ UNCHANGED files
                ELSE \E ops \in {OrganizeOps(files, src, dst, copy_output)} :
                     LET raising == {i \in 1..Len(ops) :
                                         OpRaises(files, src, ops[i]) \/ i > okOps}
                         done == IF raising = {} THEN Len(ops)
                                 ELSE (CHOOSE i \in raising : \A j \in raising : i <= j) - 1
                         copied == {[dir |-> ops[i].to, name |-> ops[i].file] : i \in 1..done}
                         moved == {[dir |-> src, name |-> ops[i].file] :
                                       i \in {j \in 1..done : ~ops[j].copy}}
                     IN  /\ dirs' = dirs \cup UNION {Prefixes(d) : d \in made}
                         /\ files' = (files \ moved) \cup copied
                         /\ org_result' =
                                IF done < Len(ops)
                                THEN CreateResult(src, dst, FALSE, "Failed to organize files",
                                                  copy_output, dst_arg.given)
                                ELSE CreateResult(src, dst, TRUE, "File organization completed",
                                                  copy_output, dst_arg.given)

\* the filesystem organize_files is called in: any files in the source
\* directory, which is /data/sim, /data/sim[1] or sim in the working directory; the working
\* directory there or removed; /out holding an earlier out.vtk or not
OrganizerAnyInit ==
    /\ org_result = NoResult
    /\ files0 = {}
    /\ \E listing \in SUBSET SourceNames, cwd \in BOOLEAN, earlier \in BOOLEAN,
          at \in {<<"data", "sim">>, <<"data", "sim[1]">>, Cwd \o <<"sim">>} :
         /\ Cwd \in Prefixes(at) => cwd
         /\ dirs = Prefixes(at)
                   \cup (IF cwd THEN {Cwd} ELSE {})
                   \cup (IF earlier THEN Prefixes(<<"out", "data", "vtk">>) ELSE {})
         /\ files = {[dir |-> at, name |-> f] : f \in listing}
                    \cup (IF earlier
                          THEN {[dir |-> <<"out", "data", "vtk">>,
                                 name |-> FileName("out.vtk", ".vtk", FALSE)]}
                          ELSE {})

InitOrganize == ParserInit /\ ExcelInit /\ OrganizerAnyInit

NextOrganize ==
    \E src_arg \in SourceArgs, dst_arg \in DestinationArgs, copy_output \in BOOLEAN,
       okDirs \in 0..Len(DirectoryStructure), okOps \in 0..Cardinality(SourceNames) :
        /\ okDirs < Len(DirectoryStructure) => okOps = 0    \* no copy is then tried
        /\ OrganizeFiles(src_arg, dst_arg, copy_output, okDirs, okOps)

SpecOrganize == InitOrganize /\ [][NextOrganize]_vars

(***************************************************************************)
(* What a file says, read off its lines alone (no parser state).           *)
(***************************************************************************)
Front(s) == SubSeq(s, 1, Len(s) - 1)

Last(s) == s[Len(s)]

Prefix(ls, j) == SubSeq(ls, 1, j)

\* nesting depth after ls: +1 per subsection line, -1 per end line, floor 0
RECURSIVE Depth(_)
Depth(ls) ==
    IF ls = <<>> THEN 0
    ELSE LET d == Depth(Front(ls))
         IN  CASE Last(ls).kind = "subsection" -> d + 1
               [] Last(ls).kind = "end"        -> IF d > 0 THEN d - 1 ELSE 0
               [] OTHER                        -> d

\* names of the subsections open after ls
RECURSIVE OpenPath(_)
OpenPath(ls) ==
    IF ls = <<>> THEN <<>>
    ELSE LET p == OpenPath(Front(ls))
         IN  CASE Last(ls).kind = "subsection" -> Append(p, Last(ls).name)
               [] Last(ls).kind = "end"        -> IF p # <<>> THEN Front(p) ELSE p
               [] OTHER                        -> p

\* the subsection line that the end line ls[j] (read at depth > 0) closes
MatchOpen(ls, j) ==
    CHOOSE i \in 1..(j - 1) :
        /\ ls[i].kind = "subsection"
        /\ Depth(Prefix(ls, i)) = Depth(Prefix(ls, j - 1))
        /\ \A k \in (i + 1)..(j - 1) :
               ls[k].kind = "subsection" => Depth(Prefix(ls, k)) # Depth(Prefix(ls, j - 1))

\* no end line is read at depth 0
NoUnderflow(ls) ==
    \A j \in 1..Len(ls) : ls[j].kind = "end" => Depth(Prefix(ls, j - 1)) > 0

SetLines(ls) == {j \in 1..Len(ls) : ls[j].kind = "set"}

SubsectionLines(ls) == {j \in 1..Len(ls) : ls[j].kind = "subsection"}

LeafPath(ls, j) == Append(OpenPath(Prefix(ls, j - 1)), ls[j].name)

DistinctKeys(ls) ==
    \A i, j \in SetLines(ls) : LeafPath(ls, i) = LeafPath(ls, j) => i = j

\* the leaves a file asks for: [path, value, type]
ExpectedLeaves(ls) ==
    {[path |-> LeafPath(ls, j), value |-> ls[j].value, type |-> ls[j].type] :
        j \in SetLines(ls)}

ExpectedSections(ls) == {OpenPath(Prefix(ls, j)) : j \in SubsectionLines(ls)}

\* the leaves a tree holds: dicts with a string under "value"
TreeLeaves(t) ==
    {[path |-> Front(e.path), value |-> e.str,
      type |-> LET ty == CHOOSE f \in t : f.path = Append(Front(e.path), "type")
               IN  IF ty.ref = NoneRef THEN "" ELSE ty.str] :
        e \in {f \in t : f.ref = StrRef /\ Last(f.path) = "value"}}

TreeSections(t) ==
    {e.path : e \in {f \in t : f.ref >= 1}} \ {l.path : l \in TreeLeaves(t)}

\* the parser state a fresh parser reaches on ls
FreshState == [objects |-> <<{}>>, section_stack |-> <<>>,
               current_section |-> parameters, pc |-> "parsing", warnings |-> 0]

RECURSIVE Run(_)
Run(ls) ==
    IF ls = <<>> THEN FreshState
    ELSE LET st == Run(Front(ls))
         IN  IF st.pc = "parsing" THEN Step(st, Last(ls)) ELSE st

Parseable(ls) == SelectSeq(ls, LAMBDA ln : ln.kind # "other")

JustRead(kind) == pc = "parsing" /\ Len(lines') = Len(lines) + 1 /\ Last(lines').kind = kind

(***************************************************************************)
(* Claims.                                                                 *)
(***************************************************************************)

\* C1: a subsection line whose name is already a key of the current section
\* reuses that subtree: parse goes on inside it and everything the subtree
\* held before the line is still in it after the line.
ReopenReusesSubtree ==
    [][ (JustRead("subsection") /\ HasKey(objects[current_section], Last(lines').name))
        => /\ pc' = "parsing"
           /\ Flat(objects, Get(objects[current_section], Last(lines').name).ref, <<>>)
                  \subseteq Flat(objects', current_section', <<>>) ]_vars

\* C2: on a fresh parser a file with matched subsection/end lines and set keys
\* distinct within each section is parsed to completion, and the tree holds
\* exactly the file's K leaves at the paths of the subsections open at their
\* lines, and every subsection named by the file.
NestingRoundTrip ==
    (calls = 1 /\ NoUnderflow(lines) /\ DistinctKeys(lines))
        => /\ pc # "raised"
           /\ (pc = "returned" /\ Depth(lines) = 0)
                  => /\ TreeLeaves(Tree(objects)) = ExpectedLeaves(lines)
                     /\ Cardinality(TreeLeaves(Tree(objects))) = Cardinality(SetLines(lines))
                     /\ ExpectedSections(lines) \subseteq TreeSections(Tree(objects))

\* C3: on a fresh parser the stack length is the nesting depth; an end line at
\* depth n > 0 pops one level and makes current the section that was current
\* before the matching subsection line; an end line at depth 0 changes neither
\* tree, stack nor current section, which is the root.
EndPopsOneLevel ==
    /\ [](calls = 1 =>
            /\ Len(section_stack) = Depth(lines)
            /\ \A j \in 1..Len(lines) :
                 lines[j].kind = "end" =>
                    LET after == IF j < Len(lines) THEN sections[j + 1] ELSE current_section
                    IN  IF Depth(Prefix(lines, j - 1)) > 0
                        THEN after = sections[MatchOpen(lines, j)]
                        ELSE after = parameters /\ sections[j] = parameters)
    /\ [][ JustRead("end") =>
             /\ pc' = "parsing"
             /\ objects' = objects
             /\ IF section_stack # <<>>
                THEN section_stack' = Front(section_stack)
                ELSE section_stack' = section_stack /\ current_section' = current_section ]_vars

EndPopsOneLevelWitness ==
    /\ pc = "returned"
    /\ \E i, j \in 1..Len(lines) :
         /\ i < j /\ j < Len(lines)
         /\ lines[i].kind = "end" /\ Depth(Prefix(lines, i - 1)) > 0
         /\ lines[j].kind = "end" /\ Depth(Prefix(lines, j - 1)) = 0
         /\ lines[j + 1].kind = "set"
         /\ HasKey(objects[parameters], lines[j + 1].name)

\* C4: an unparseable line prints a diagnostic, raises nothing and leaves tree,
\* stack and current section as they are; the parse goes on as if the line
\* were absent from the file.
UnparseableLineSkipped ==
    /\ [](calls = 1 =>
            LET st == Run(Parseable(lines))
            IN  /\ objects = st.objects
                /\ section_stack = st.section_stack
                /\ current_section = st.current_section
                /\ (pc = "raised") = (st.pc = "raised")
                /\ warnings = Len(lines) - Len(Parseable(lines)))
    /\ [][ JustRead("other") =>
             /\ pc' = "parsing"
             /\ warnings' = warnings + 1
             /\ UNCHANGED <<objects, section_stack, current_section>> ]_vars

UnparseableLineSkippedWitness ==
    /\ pc = "returned"
    /\ \E j \in 1..(Len(lines) - 1) :
         /\ lines[j].kind = "other"
         /\ lines[j + 1].kind = "set"
         /\ [path |-> LeafPath(lines, j + 1), value |-> lines[j + 1].value,
             type |-> lines[j + 1].type] \in TreeLeaves(Tree(objects))

\* C5: every parse call starts at the root with an empty section stack: in any
\* call of one instance the stack length is the nesting depth of the lines of
\* that call, and at depth 0 the current section is the root.
CallStartsWithEmptyStack ==
    pc \in {"parsing", "returned"} =>
        /\ Len(section_stack) = Depth(lines)
        /\ Depth(lines) = 0 => current_section = parameters

\* C6: parsing the same well-formed content a second time on one instance
\* leaves a tree equal to the tree after the first parse.
ReparseGivesSameTree ==
    (calls = 2 /\ pc = "returned") => Tree(objects) = firstTree

\* C7: the record holds under description and observations the text of the
\* sidecar file when it exists and the empty string when it is absent.
SidecarFieldsInRecord ==
    record # {} =>
        /\ HasKey(record, "description")
        /\ Get(record, "description").ref = StrRef
        /\ Get(record, "description").str =
               (IF source_directory.description.exists
                THEN source_directory.description.text ELSE "")
        /\ HasKey(record, "observations")
        /\ Get(record, "observations").ref = StrRef
        /\ Get(record, "observations").str =
               (IF source_directory.observations.exists
                THEN source_directory.observations.text ELSE "")

\* C8: after n >= 1 calls with one sheet label and records over the same
\* columns the file holds the header row followed by the n records in call
\* order.
ExcelHoldsRecordsInOrder ==
    (/\ Len(added) >= 1
     /\ \A i \in 1..Len(added) :
          /\ added[i].calculation = added[1].calculation
          /\ added[i].params.cols = added[1].params.cols)
        => /\ workbook.exists
           /\ excel_status = "ok"
           /\ workbook.sheets[1].rows =
                  <<added[1].params.cols>> \o [i \in 1..Len(added) |-> added[i].params.vals]

\* where a file name belongs in the destination, by its name alone
Placement(f) ==
    IF f.ext \in {".cc", ".c", ".cpp", ".cxx", ".h", ".hpp", ".prm", ".py", ".sh",
                  ".json", ".yaml", ".yml"} \/ f.name = "CMakeLists.txt"
    THEN <<"code">>
    ELSE IF f.ext \in {".vtk", ".vtu", ".pvtu"} THEN <<"data", "vtk">>
    ELSE IF f.ext = ".md" THEN <<>>
    ELSE IF f.name = "integratedFields.txt" THEN <<"data", "postprocess">>
    ELSE <<"nowhere">>

HasPlacement(f) == Placement(f) # <<"nowhere">>

IsBulkOutput(f) == f.ext \in {".vtk", ".vtu", ".pvtu"}

PlacedByName(names) ==
    LET src == org_result.src_dir
        dst == org_result.dst_dir
    IN  /\ org_result.dst_given => dst = <<"out">>
        /\ ~org_result.dst_given => dst = Cwd \o <<src[Len(src)]>>
        /\ \A i \in 2..Len(DirectoryStructure) : dst \o DirectoryStructure[i] \in dirs
        /\ \A f \in {g \in names : HasPlacement(g)} :
             /\ [dir |-> dst \o Placement(f), name |-> f] \in files
             /\ IF IsBulkOutput(f) /\ ~org_result.copy_output
                THEN [dir |-> src, name |-> f] \notin files
                ELSE [dir |-> src, name |-> f] \in files

\* C9: organize_files never raises: a missing source directory, a failure to
\* create the directories and a failed copy or move all end in a returned
\* result with success False and a message (nothing is created for a missing
\* source); success is True only when every step completed.
OrganizeNeverRaises ==
    org_result.outcome # "none" =>
        /\ org_result.outcome = "returned"
        /\ org_result.message # ""
        /\ org_result.src_dir \notin dirs =>
               /\ ~org_result.success
               /\ files = files0
               /\ org_result.dst_dir \o <<"code">> \notin dirs
        /\ org_result.success =>
               \A i \in 1..Len(DirectoryStructure) :
                   org_result.dst_dir \o DirectoryStructure[i] \in dirs

=============================================================================
